---- MODULE Spec2Model ----
(***************************************************************************)
(* Model of geniebot: the Discord message router (bot.py), the Assistants  *)
(* run orchestration (llm.py) and the persisted settings (storage.py).     *)
(* Strings are sequences of one-character strings.                         *)
(***************************************************************************)
EXTENDS Integers, Sequences, FiniteSets, TLC

(* ---------------------------------------------------------------------- *)
(* Bounds of the model                                                     *)
(* ---------------------------------------------------------------------- *)
\* the poll counter saturates here (the loop itself is never bounded)
MaxPolls == 3
\* length of the long author name used to exercise the truncation
LongLen == 104

(* ---------------------------------------------------------------------- *)
(* Program constants                                                       *)
(* ---------------------------------------------------------------------- *)
\* bot.py: name = base[:100]
MaxNameLen == 100
\* llm.py: messages.list(..., limit=5)
ListLimit == 5

(* ---------------------------------------------------------------------- *)
(* Python string primitives                                                *)
(* ---------------------------------------------------------------------- *)
\* characters str.strip() / str.split() treat as whitespace
Whitespace == {" ", "\t", "\n", "\r", "\f"}

\* bot.py: forbidden = "\n\r\t"
Forbidden == {"\n", "\r", "\t"}

RECURSIVE LStrip(_)
LStrip(s) ==
  IF s = <<>> THEN <<>>
  ELSE IF Head(s) \in Whitespace THEN LStrip(Tail(s)) ELSE s

RECURSIVE RStrip(_)
RStrip(s) ==
  IF s = <<>> THEN <<>>
  ELSE IF s[Len(s)] \in Whitespace THEN RStrip(SubSeq(s, 1, Len(s) - 1)) ELSE s

\* str.strip()
Strip(s) == RStrip(LStrip(s))

\* " ".join(s.split()): whitespace runs collapse to one space, ends trimmed
Collapse(s) ==
  LET t == Strip(s)
      marked == [i \in 1..Len(t) |->
                   IF t[i] \notin Whitespace THEN t[i]
                   ELSE IF t[i - 1] \in Whitespace THEN "" ELSE " "]
  IN SelectSeq(marked, LAMBDA c : c # "")

\* s[:n]
Truncate(s, n) == IF Len(s) <= n THEN s ELSE SubSeq(s, 1, n)

\* for ch in forbidden: name = name.replace(ch, " ")
ReplaceForbidden(s) == [i \in 1..Len(s) |-> IF s[i] \in Forbidden THEN " " ELSE s[i]]

\* the outcome of a call that may raise
Ok(v) == [ok |-> TRUE, val |-> v]
Raised == [ok |-> FALSE, val |-> <<>>]

\* index of the first "}" of t at or after i, 0 when there is none
RECURSIVE CloseBrace(_, _)
CloseBrace(t, i) ==
  IF i > Len(t) THEN 0
  ELSE IF t[i] = "}" THEN i ELSE CloseBrace(t, i + 1)

\* str.format(**fields) on the template suffix starting at i: "{{" and "}}"
\* are literal braces, "{name}" substitutes a keyword argument, and a lone
\* brace, an unterminated field, an empty or an unknown field name raises
\* (ValueError, IndexError, KeyError).
RECURSIVE PyFormat(_, _, _)
PyFormat(t, i, fields) ==
  IF i > Len(t) THEN Ok(<<>>)
  ELSE IF t[i] = "{" THEN
    IF i < Len(t) /\ t[i + 1] = "{"
    THEN LET r == PyFormat(t, i + 2, fields) IN
         IF r.ok THEN Ok(<<"{">> \o r.val) ELSE Raised
    ELSE LET j == CloseBrace(t, i + 1) IN
         IF j = 0 THEN Raised
         ELSE LET name == SubSeq(t, i + 1, j - 1) IN
              IF name \in DOMAIN fields
              THEN LET r == PyFormat(t, j + 1, fields) IN
                   IF r.ok THEN Ok(fields[name] \o r.val) ELSE Raised
              ELSE Raised
  ELSE IF t[i] = "}" THEN
    IF i < Len(t) /\ t[i + 1] = "}"
    THEN LET r == PyFormat(t, i + 2, fields) IN
         IF r.ok THEN Ok(<<"}">> \o r.val) ELSE Raised
    ELSE Raised
  ELSE LET r == PyFormat(t, i + 1, fields) IN
       IF r.ok THEN Ok(<<t[i]>> \o r.val) ELSE Raised

(* ---------------------------------------------------------------------- *)
(* String literals                                                         *)
(* ---------------------------------------------------------------------- *)
sAuthor == <<"a", "u", "t", "h", "o", "r">>
sId == <<"i", "d">>
sChannel == <<"c", "h", "a", "n", "n", "e", "l">>
sUserId == <<"u", "s", "e", "r", "_", "i", "d">>
sAgent == <<"a", "g", "e", "n", "t">>
sGenieDash == <<"g", "e", "n", "i", "e", "-">>

\* config.py: the default THREAD_NAME_TEMPLATE, "genie-{author}-{id}"
DefaultTemplate == sGenieDash \o <<"{">> \o sAuthor \o <<"}", "-", "{">> \o sId \o <<"}">>

\* str(n) for the small naturals used as ids
Digit(d) == CASE d = 0 -> "0" [] d = 1 -> "1" [] d = 2 -> "2" [] d = 3 -> "3"
              [] d = 4 -> "4" [] d = 5 -> "5" [] d = 6 -> "6" [] d = 7 -> "7"
              [] d = 8 -> "8" [] d = 9 -> "9"

RECURSIVE IntToStr(_)
IntToStr(n) == IF n < 10 THEN <<Digit(n)>> ELSE IntToStr(n \div 10) \o <<Digit(n % 10)>>

\* bot.py: the reply _generate_reply substitutes for an empty text
sFallback ==
  <<"I", " ", "c", "o", "u", "l", "d", "n", "'", "t", " ", "p", "r", "o",
    "d", "u", "c", "e", " ", "a", " ", "r", "e", "c", "o", "m", "m", "e",
    "n", "d", "a", "t", "i", "o", "n", " ", "f", "r", "o", "m", " ", "t",
    "h", "e", " ", "d", "e", "t", "a", "i", "l", "s", " ", "p", "r", "o",
    "v", "i", "d", "e", "d", ".">>

\* bot.py: the reply on_message sends when _generate_reply raised
sApology ==
  <<"I", " ", "h", "i", "t", " ", "a", "n", " ", "u", "n", "e", "x", "p",
    "e", "c", "t", "e", "d", " ", "e", "r", "r", "o", "r", " ", "w", "h",
    "i", "l", "e", " ", "g", "e", "n", "e", "r", "a", "t", "i", "n", "g",
    " ", "a", " ", "r", "e", "c", "o", "m", "m", "e", "n", "d", "a", "t",
    "i", "o", "n", ".", " ", "P", "l", "e", "a", "s", "e", " ", "t", "r",
    "y", " ", "a", "g", "a", "i", "n", " ", "o", "r", " ", "p", "r", "o",
    "v", "i", "d", "e", " ", "a", " ", "b", "i", "t", " ", "m", "o", "r",
    "e", " ", "d", "e", "t", "a", "i", "l", " ", "a", "b", "o", "u", "t",
    " ", "t", "h", "e", " ", "c", "l", "i", "e", "n", "t", ".">>

\* bot.py: the prompt is "Question from agent '" + author + "':\n\n" + user_text
sQuestionFrom ==
  <<"Q", "u", "e", "s", "t", "i", "o", "n", " ", "f", "r", "o", "m", " ",
    "a", "g", "e", "n", "t", " ", "'">>

sQuoteColon ==
  <<"'", ":", "\n", "\n">>

(* ---------------------------------------------------------------------- *)
(* Platform data: channels, threads, messages                              *)
(* ---------------------------------------------------------------------- *)
\* Python None where an id is expected (parent_id = None, Optional[int])
NoId == -1

\* a discord.TextChannel, a discord.Thread under a parent, and a channel that
\* is neither (a DM or voice channel): what on_message tells apart with isinstance
TextChannel(i, nm) == [kind |-> "text", id |-> i, parent |-> NoId, name |-> nm]
Thread(i, p, nm) == [kind |-> "thread", id |-> i, parent |-> p, name |-> nm]
OtherChannel(i, nm) == [kind |-> "other", id |-> i, parent |-> NoId, name |-> nm]
NoChannel == [kind |-> "none", id |-> NoId, parent |-> NoId, name |-> <<>>]

chGenie == TextChannel(1, <<"g", "e", "n", "i", "e">>)
chLobby == TextChannel(2, <<"l", "o", "b", "b", "y">>)
thGenie == Thread(11, 1, <<"t", "1">>)
thLobby == Thread(12, 2, <<"t", "2">>)
chDirect == OtherChannel(21, <<"d", "m">>)

TextChannels == {chGenie, chLobby}
Contexts == {chGenie, chLobby, thGenie, thLobby, chDirect}

sBob == <<"b", "o", "b">>
sHi == <<"h", "i">>

\* a discord.Message: author.bot, content, channel, author.name, id, author.id
Message(b, c, ch, a) ==
  [bot |-> b, content |-> c, chan |-> ch, author |-> a, id |-> 7, user_id |-> 5]
NoMsg == Message(FALSE, <<>>, NoChannel, <<>>)

\* the messages the gateway delivers
Messages ==
  {Message(b, c, ch, sBob) :
     b \in BOOLEAN, c \in {<<>>, <<" ", "\n">>, sHi}, ch \in Contexts}

(* ---------------------------------------------------------------------- *)
(* storage.py: the settings document .geniebot.json                        *)
(* ---------------------------------------------------------------------- *)
\* JSON values of a key: missing/null, an integer, a string
JNone == [t |-> "none", n |-> 0, s |-> <<>>]
JInt(i) == [t |-> "int", n |-> i, s |-> <<>>]
JStr(x) == [t |-> "str", n |-> 0, s |-> x]

\* the file: absent, unparseable, or a JSON object with the two keys
Doc(g, a) == [kind |-> "object", genie_channel_id |-> g, assistant_id |-> a]
AbsentDoc == [kind |-> "absent", genie_channel_id |-> JNone, assistant_id |-> JNone]
CorruptDoc == [kind |-> "corrupt", genie_channel_id |-> JNone, assistant_id |-> JNone]
\* valid JSON that is not an object: a list, a string, a number, null
NonObjectDoc == [kind |-> "nonobject", genie_channel_id |-> JNone, assistant_id |-> JNone]

\* _read_json / load_settings: {} unless the file exists and parses
load_settings(f) == IF f.kind \in {"object", "nonobject"} THEN f ELSE Doc(JNone, JNone)

\* data.get(key) and data[key] = value work on a dict only: on what else
\* json.loads returned they raise AttributeError or TypeError
IsDict(data) == data.kind = "object"

Digits == {"0", "1", "2", "3", "4", "5", "6", "7", "8", "9"}

\* str.isdigit()
IsDigit(x) == x # <<>> /\ \A i \in 1..Len(x) : x[i] \in Digits

DigitVal(c) == CHOOSE d \in 0..9 : Digit(d) = c

\* int(str)
RECURSIVE StrToInt(_)
StrToInt(x) ==
  IF x = <<>> THEN 0
  ELSE 10 * StrToInt(SubSeq(x, 1, Len(x) - 1)) + DigitVal(x[Len(x)])

\* get_genie_channel_id: int(val) for an int or a digit string, else None
get_genie_channel_id(f) ==
  LET val == load_settings(f).genie_channel_id IN
  IF val.t = "int" THEN val.n
  ELSE IF val.t = "str" /\ IsDigit(val.s) THEN StrToInt(val.s)
  ELSE NoId

\* set_genie_channel_id: read, set the key, write back
set_genie_channel_id(f, id) == [load_settings(f) EXCEPT !.genie_channel_id = JInt(id)]

\* DiscordBot.__init__: the persisted channel if truthy, else the env list
StartupAllowList(f, static) ==
  LET persisted_genie == get_genie_channel_id(f) IN
  IF persisted_genie # NoId /\ persisted_genie # 0
  THEN {persisted_genie} ELSE static

\* slip: the new channel is added to the allow-list
AdminAllowList_merging(old, id) == old \cup {id}

\* genie_channel_cmd: self.allowed_channel_ids = {channel.id}
AdminAllowList(old, id) == {id}

\* the remote assistant ids the backend hands out
AsstId(k) == <<"a", "s", "s", "t", "_", Digit(k)>>

(* ---------------------------------------------------------------------- *)
(* on_message helpers                                                      *)
(* ---------------------------------------------------------------------- *)
\* slip: the parent of a thread is not looked at
Permitted_ignoring_parent(msg, allow) == msg.chan.id \in allow

\* bot.py: the allow-list test of on_message
Permitted(msg, allow) ==
  LET parent_id == IF msg.chan.kind = "thread" THEN msg.chan.parent ELSE NoId IN
  (msg.chan.id \in allow) \/ (parent_id \in allow)

\* slip: the text is tested for emptiness before it is trimmed
Ignored_untrimmed(msg, allow) ==
  \/ msg.bot
  \/ msg.content = <<>>
  \/ (allow # {} /\ ~Permitted(msg, allow))

\* on_message returns before routing: a bot author, an empty trimmed text,
\* or a configured allow-list that does not permit the channel
Ignored(msg, allow) ==
  \/ msg.bot
  \/ Strip(msg.content) = <<>>
  \/ (allow # {} /\ ~Permitted(msg, allow))

\* _format_thread_name
FormatThreadName(tmpl, msg) ==
  LET stripped == Strip(IF msg.author = <<>> THEN sAgent ELSE msg.author)
      safe_author == Collapse(stripped)
      fields == (sAuthor :> safe_author) @@ (sId :> IntToStr(msg.id))
                @@ (sChannel :> msg.chan.name) @@ (sUserId :> IntToStr(msg.user_id))
      base == PyFormat(tmpl, 1, fields)
  IN IF ~base.ok THEN Raised
     ELSE LET name == Strip(ReplaceForbidden(Truncate(base.val, MaxNameLen))) IN
          Ok(IF name = <<>> THEN sGenieDash \o IntToStr(msg.id) ELSE name)

\* _generate_reply: the single user message handed to the LLM
Prompt(msg) == sQuestionFrom \o msg.author \o sQuoteColon \o Strip(msg.content)

\* slip: the fallback replaces only the empty text, not the blank one
ReplyText_unstripped(text) == IF text = <<>> THEN sFallback ELSE text

\* _generate_reply: text.strip() or the fallback
ReplyText(text) == IF Strip(text) = <<>> THEN sFallback ELSE Strip(text)

(* ---------------------------------------------------------------------- *)
(* llm.py: the remote run and the conversation it leaves                   *)
(* ---------------------------------------------------------------------- *)
\* slip: requires_action is taken for a final status
Active_without_requires_action == {"queued", "in_progress"}

\* while run.status in ("queued", "in_progress", "requires_action")
Active == {"queued", "in_progress", "requires_action"}

\* the final statuses of a run
Terminal == {"completed", "failed", "expired"}

\* the statuses of a run
RunStatuses ==
  {"queued", "in_progress", "requires_action", "completed", "failed", "expired"}

\* the run lifecycle of the backend
Successors(s) ==
  CASE s = "queued" -> {"in_progress", "failed", "expired"}
    [] s = "in_progress" -> {"requires_action", "completed", "failed", "expired"}
    [] s = "requires_action" -> {"in_progress", "failed", "expired"}
    [] OTHER -> {}

\* the loop test after a run object has been received
AfterStatus(s) == IF s \in Active THEN "poll" ELSE "list"

TextPart(v) == [type |-> "text", value |-> v]
ImagePart == [type |-> "image_file", value |-> <<>>]
AssistantMsg(parts) == [role |-> "assistant", content |-> parts]
UserMsg == [role |-> "user", content |-> <<TextPart(sHi)>>]

sHello == <<"h", "e", "l", "l", "o">>
sOld == <<"o", "l", "d">>

\* conversations a thread may hold when it is listed, newest message first
Conversations ==
  { <<AssistantMsg(<<TextPart(sHello)>>), UserMsg>>,
    <<AssistantMsg(<<TextPart(<<" ", "h", "i", "\n">>)>>), UserMsg>>,
    <<AssistantMsg(<<TextPart(<<" ", "\n">>)>>), UserMsg>>,
    <<AssistantMsg(<<ImagePart, TextPart(sHello), TextPart(sOld)>>), UserMsg>>,
    <<UserMsg>>,
    <<AssistantMsg(<<ImagePart>>), UserMsg>>,
    <<AssistantMsg(<<>>), UserMsg>>,
    <<AssistantMsg(<<TextPart(<<>>)>>), UserMsg>>,
    <<AssistantMsg(<<ImagePart>>), AssistantMsg(<<TextPart(sOld)>>), UserMsg>>,
    <<UserMsg, UserMsg, UserMsg, UserMsg, UserMsg, AssistantMsg(<<TextPart(sOld)>>)>> }

\* the value of the first part of type "text", "" when there is none
RECURSIVE FirstTextPart(_)
FirstTextPart(parts) ==
  IF parts = <<>> THEN <<>>
  ELSE IF Head(parts).type = "text" THEN Head(parts).value
  ELSE FirstTextPart(Tail(parts))

\* the scan of msgs.data: the first assistant message whose first text part
\* is non-empty ends the scan
RECURSIVE ScanMessages(_)
ScanMessages(msgs) ==
  IF msgs = <<>> THEN <<>>
  ELSE IF Head(msgs).role = "assistant" /\ FirstTextPart(Head(msgs).content) # <<>>
  THEN FirstTextPart(Head(msgs).content)
  ELSE ScanMessages(Tail(msgs))

\* messages.list(thread_id, order="desc", limit=5) followed by the scan
LatestText(conv) == ScanMessages(Truncate(conv, ListLimit))

(* ---------------------------------------------------------------------- *)
(* State                                                                   *)
(* ---------------------------------------------------------------------- *)
VARIABLES
  up,           \* the process is running (main() got past construction)
  file,         \* the settings document on disk
  staticIds,    \* DISCORD_ALLOWED_CHANNEL_IDS
  template,     \* THREAD_NAME_TEMPLATE
  allowed,      \* DiscordBot.allowed_channel_ids
  assistantId,  \* LLMClient.assistant_id
  assistants,   \* the assistant resources that exist at the backend
  setLog,       \* history of the admin sets: the channel of the last set that
                \* was persisted (NoId when there is none or a settings write
                \* failed since), the one before it, and whether the process
                \* was started again since
  cmdReply,     \* what the caller of the last admin command was shown
  startError,   \* what the last start of the process raised, "none" if nothing
  poolSize,     \* max_workers of the event loop's default executor
  task,         \* per message slot: the on_message task
  flow,         \* per message slot: run_sync_flow handed to the executor
  remote        \* per conversation id: the remote conversation and its run

vars == <<up, file, staticIds, template, allowed, assistantId, assistants,
          setLog, cmdReply, startError, poolSize, task, flow, remote>>

configVars == <<up, file, staticIds, template, allowed, assistantId, assistants,
                setLog, cmdReply, startError, poolSize>>

Slots == {1}

\* worker threads of the executor asyncio.to_thread uses; the pool is scaled
\* down together with the number of messages in flight
MaxWorkers == 2

IdleTask ==
  [pc |-> "idle", msg |-> NoMsg, name |-> <<>>, target |-> "none",
   nCreate |-> 0, nGrant |-> 0, granted |-> FALSE, typing |-> FALSE,
   nTyping |-> 0, raised |-> FALSE, reply |-> <<>>, nSend |-> 0,
   delivered |-> FALSE, via |-> "none"]

IdleFlow ==
  [pc |-> "none", thread |-> NoId, status |-> "none", polls |-> 0, seen |-> {},
   text |-> <<>>, nDelete |-> 0, clean |-> TRUE]

NoRemote ==
  [conv |-> "none", userMsgs |-> <<>>, status |-> "none", msgs |-> <<>>]

NoSets == [last |-> NoId, prev |-> NoId, restarted |-> FALSE]

\* the settings documents the running process of Init started from
RunningFiles == {Doc(g, JStr(AsstId(1))) : g \in {JNone, JInt(1)}}

\* the env lists of Init: none, and one naming a channel and a thread
RunningLists == {{}, {2, 11}}

\* the default template and one with a placeholder format() does not know
Templates == {DefaultTemplate, sGenieDash \o <<"{", "n", "a", "m", "e", "}">>}

\* a running process: the allow-list as DiscordBot.__init__ derived it
Init ==
  /\ up = TRUE
  /\ file \in RunningFiles
  /\ staticIds \in RunningLists
  /\ template \in Templates
  /\ allowed = StartupAllowList(file, staticIds)
  /\ assistantId = AsstId(1)
  /\ assistants = {AsstId(1)}
  /\ setLog = NoSets
  /\ cmdReply = "none"
  /\ startError = "none"
  /\ poolSize = MaxWorkers
  /\ task = [m \in Slots |-> IdleTask]
  /\ flow = [m \in Slots |-> IdleFlow]
  /\ remote = [m \in Slots |-> NoRemote]

(* ---------------------------------------------------------------------- *)
(* bot.py: the admin command                                               *)
(* ---------------------------------------------------------------------- *)
\* what a failed write_text leaves on disk: the old content when the open
\* failed, a truncated file when the write failed after the truncating open
AfterFailedWrite(f) == {f, CorruptDoc}

\* slip: the allow-list is replaced before the permission is looked at
GenieChannelCmd_unchecked(admin, ch, writeOk, sendOk) ==
  /\ up
  /\ allowed' = AdminAllowList(allowed, ch.id)
  /\ IF ~admin
     THEN /\ cmdReply' = IF sendOk THEN "admin_only" ELSE "admin_only_lost"
          /\ UNCHANGED <<file, setLog>>
     ELSE IF writeOk /\ IsDict(load_settings(file))
     THEN /\ file' = set_genie_channel_id(file, ch.id)
          /\ setLog' = [last |-> ch.id, prev |-> setLog.last, restarted |-> FALSE]
          /\ cmdReply' = IF sendOk THEN "confirmed" ELSE "confirmed_lost"
     ELSE /\ file' \in IF IsDict(load_settings(file)) THEN AfterFailedWrite(file) ELSE {file}
          /\ setLog' = NoSets
          /\ cmdReply' = "raised"
  /\ UNCHANGED <<up, staticIds, template, assistantId, assistants, startError,
                 poolSize, task, flow, remote>>

\* genie_channel_cmd(interaction, channel): cmdReply records the outcome (the
\* rejection or the confirmation shown, or lost when the response could not
\* be sent, or the exception of set_genie_channel_id)
GenieChannelCmd(admin, ch, writeOk, sendOk) ==
  /\ up
  /\ IF ~admin
     THEN /\ cmdReply' = IF sendOk THEN "admin_only" ELSE "admin_only_lost"
          /\ UNCHANGED <<allowed, file, setLog>>
     ELSE /\ allowed' = AdminAllowList(allowed, ch.id)
          /\ IF writeOk /\ IsDict(load_settings(file))
             THEN /\ file' = set_genie_channel_id(file, ch.id)
                  /\ setLog' = [last |-> ch.id, prev |-> setLog.last, restarted |-> FALSE]
                  /\ cmdReply' = IF sendOk THEN "confirmed" ELSE "confirmed_lost"
             ELSE /\ file' \in IF IsDict(load_settings(file))
                               THEN AfterFailedWrite(file) ELSE {file}
                  /\ setLog' = NoSets
                  /\ cmdReply' = "raised"
  /\ UNCHANGED <<up, staticIds, template, assistantId, assistants, startError,
                 poolSize, task, flow, remote>>

AdminCommand ==
  \E admin \in BOOLEAN, ch \in TextChannels, writeOk \in BOOLEAN, sendOk \in BOOLEAN :
    GenieChannelCmd(admin, ch, writeOk, sendOk)

(* ---------------------------------------------------------------------- *)
(* bot.py: on_message, one action per stretch between two awaits           *)
(* ---------------------------------------------------------------------- *)
Resting == {"idle", "ignored", "escaped", "done"}

SetTask(m, t) == task' = [task EXCEPT ![m] = t]
SetFlow(m, f) == flow' = [flow EXCEPT ![m] = f]
SetRemote(c, r) == remote' = [remote EXCEPT ![c] = r]

\* entry of on_message up to its first await: the three filters, then for a
\* text channel the thread name (format() may raise: nothing catches it)
on_message(m, msg) ==
  /\ up
  /\ task[m].pc \in Resting
  /\ LET t == [IdleTask EXCEPT !.msg = msg] IN
     SetTask(m,
       IF Ignored(msg, allowed) THEN [t EXCEPT !.pc = "ignored"]
       ELSE IF msg.chan.kind = "text"
       THEN LET r == FormatThreadName(template, msg) IN
            IF r.ok
            THEN [t EXCEPT !.pc = "create_thread", !.name = r.val, !.target = "origin"]
            ELSE [t EXCEPT !.pc = "escaped", !.target = "origin"]
       ELSE [t EXCEPT !.pc = "typing", !.target = "origin"])
  /\ SetFlow(m, IdleFlow)
  /\ IF flow[m].thread = NoId THEN UNCHANGED remote
     ELSE SetRemote(flow[m].thread, NoRemote)
  /\ UNCHANGED configVars

\* slip: a failed creation is not caught and ends the task
create_thread_fatal(m, ok) ==
  /\ task[m].pc = "create_thread"
  /\ SetTask(m, [task[m] EXCEPT !.nCreate = @ + 1,
                                !.pc = IF ok THEN "add_user" ELSE "escaped"])
  /\ UNCHANGED <<configVars, flow, remote>>

\* await message.channel.create_thread(...): on failure the channel stays the target
create_thread(m, ok) ==
  /\ task[m].pc = "create_thread"
  /\ SetTask(m, [task[m] EXCEPT !.nCreate = @ + 1,
                                !.pc = IF ok THEN "add_user" ELSE "typing"])
  /\ UNCHANGED <<configVars, flow, remote>>

\* slip: a failed grant is tried again instead of being swallowed
add_user_retrying(m, ok) ==
  /\ task[m].pc = "add_user"
  /\ SetTask(m, [task[m] EXCEPT !.nGrant = @ + 1, !.granted = ok,
                                !.target = "created",
                                !.pc = IF ok THEN "typing" ELSE "add_user"])
  /\ UNCHANGED <<configVars, flow, remote>>

\* await created_thread.add_user(author): a failure is swallowed
add_user(m, ok) ==
  /\ task[m].pc = "add_user"
  /\ SetTask(m, [task[m] EXCEPT !.nGrant = @ + 1, !.granted = ok,
                                !.target = "created", !.pc = "typing"])
  /\ UNCHANGED <<configVars, flow, remote>>

\* async with target_channel.typing(): entering sends the indicator and may raise
typing_enter(m, ok) ==
  /\ task[m].pc = "typing"
  /\ SetTask(m, [task[m] EXCEPT !.nTyping = @ + 1, !.typing = ok,
                                !.pc = IF ok THEN "sleep" ELSE "escaped"])
  /\ UNCHANGED <<configVars, flow, remote>>

\* _generate_reply -> _call_llm: after the sleep, complete() submits
\* run_sync_flow to the executor and awaits it
call_llm(m) ==
  /\ task[m].pc = "sleep"
  /\ SetTask(m, [task[m] EXCEPT !.pc = "await_llm"])
  /\ SetFlow(m, [IdleFlow EXCEPT !.pc = "submitted"])
  /\ UNCHANGED <<configVars, remote>>

\* isinstance(target_channel, discord.Thread)
TargetIsThread(t) == t.target = "created" \/ t.msg.chan.kind = "thread"

\* _generate_reply returned: the with block ends, the reply is ready to send
generate_reply_returns(m) ==
  /\ task[m].pc = "await_llm"
  /\ flow[m].pc = "returned"
  /\ SetTask(m, [task[m] EXCEPT !.reply = ReplyText(flow[m].text),
                                !.typing = FALSE, !.pc = "send"])
  /\ UNCHANGED <<configVars, flow, remote>>

\* slip: the indicator is released on the returning path only
generate_reply_raises_typing_held(m) ==
  /\ task[m].pc = "await_llm"
  /\ flow[m].pc = "raised"
  /\ SetTask(m, [task[m] EXCEPT !.raised = TRUE, !.reply = sApology, !.pc = "send"])
  /\ UNCHANGED <<configVars, flow, remote>>

\* _generate_reply raised what complete() raised: on_message catches it
generate_reply_raises(m) ==
  /\ task[m].pc = "await_llm"
  /\ flow[m].pc = "raised"
  /\ SetTask(m, [task[m] EXCEPT !.raised = TRUE, !.reply = sApology,
                                !.typing = FALSE, !.pc = "send"])
  /\ UNCHANGED <<configVars, flow, remote>>

\* target_channel.send(reply) or message.reply(reply): a failure is logged
send_reply(m, ok) ==
  /\ task[m].pc = "send"
  /\ SetTask(m, [task[m] EXCEPT !.nSend = @ + 1, !.delivered = ok,
                                !.via = IF TargetIsThread(task[m]) THEN "send" ELSE "reply",
                                !.pc = "done"])
  /\ UNCHANGED <<configVars, flow, remote>>

(* ---------------------------------------------------------------------- *)
(* llm.py: run_sync_flow, one action per backend call                      *)
(* ---------------------------------------------------------------------- *)
Raise(f) == [f EXCEPT !.pc = "raised", !.clean = FALSE]

\* run_sync_flow of slot m occupies a worker thread
OnWorker(m) ==
  flow[m].pc \in {"threads_create", "messages_create", "runs_create", "poll",
                  "list", "delete"}

\* asyncio.to_thread(run_sync_flow): the function starts when the executor has
\* a worker for it, and waits in the executor's queue until then
run_sync_flow(m) ==
  /\ flow[m].pc = "submitted"
  /\ Cardinality({n \in DOMAIN flow : OnWorker(n)}) < poolSize
  /\ SetFlow(m, [flow[m] EXCEPT !.pc = "threads_create"])
  /\ UNCHANGED <<configVars, task, remote>>

\* the id the backend gives the next conversation
FreshThread ==
  CHOOSE c \in DOMAIN remote :
    /\ remote[c].conv = "none"
    /\ \A d \in DOMAIN remote : remote[d].conv = "none" => c <= d

\* slip: the calls address the oldest live conversation instead of the one
\* this invocation created
thread_id_first(m) ==
  LET live == {c \in DOMAIN remote : remote[c].conv = "live"} IN
  IF live = {} THEN flow[m].thread
  ELSE CHOOSE c \in live : \A d \in live : c <= d

\* thread.id: the local variable of run_sync_flow every later call is given
thread_id(m) == flow[m].thread

\* thread = client.beta.threads.create()
threads_create(m, ok) ==
  /\ flow[m].pc = "threads_create"
  /\ IF ok
     THEN /\ SetFlow(m, [flow[m] EXCEPT !.pc = "messages_create", !.thread = FreshThread])
          /\ SetRemote(FreshThread, [remote[FreshThread] EXCEPT !.conv = "live"])
     ELSE /\ SetFlow(m, Raise(flow[m]))
          /\ UNCHANGED remote
  /\ UNCHANGED <<configVars, task>>

\* the loop over user_messages: one user message, appended when non-empty
messages_create(m, ok) ==
  /\ flow[m].pc = "messages_create"
  /\ LET content == Prompt(task[m].msg) IN
     IF content = <<>>
     THEN /\ SetFlow(m, [flow[m] EXCEPT !.pc = "runs_create"])
          /\ UNCHANGED remote
     ELSE IF ok
     THEN /\ SetFlow(m, [flow[m] EXCEPT !.pc = "runs_create"])
          /\ SetRemote(thread_id(m), [remote[thread_id(m)] EXCEPT !.userMsgs = Append(@, content)])
     ELSE /\ SetFlow(m, Raise(flow[m]))
          /\ UNCHANGED remote
  /\ UNCHANGED <<configVars, task>>

\* run = client.beta.threads.runs.create(...): the run starts queued
runs_create(m, ok) ==
  /\ flow[m].pc = "runs_create"
  /\ IF ok
     THEN /\ SetFlow(m, [flow[m] EXCEPT !.status = "queued", !.seen = {"queued"},
                                        !.pc = AfterStatus("queued")])
          /\ SetRemote(thread_id(m), [remote[thread_id(m)] EXCEPT !.status = "queued"])
     ELSE /\ SetFlow(m, Raise(flow[m]))
          /\ UNCHANGED remote
  /\ UNCHANGED <<configVars, task>>

\* the backend moves the run of conversation c along its lifecycle
backend_advance(c, s) ==
  /\ remote[c].conv = "live"
  /\ s \in Successors(remote[c].status)
  /\ SetRemote(c, [remote[c] EXCEPT !.status = s])
  /\ UNCHANGED <<configVars, task, flow>>

Saturate(n) == IF n < MaxPolls THEN n + 1 ELSE MaxPolls

\* one turn of the polling loop: sleep, runs.retrieve, test the status
runs_retrieve(m, ok) ==
  /\ flow[m].pc = "poll"
  /\ IF ok
     THEN SetFlow(m, [flow[m] EXCEPT !.polls = Saturate(@),
                                     !.status = remote[thread_id(m)].status,
                                     !.seen = @ \cup {remote[thread_id(m)].status},
                                     !.pc = AfterStatus(remote[thread_id(m)].status)])
     ELSE SetFlow(m, [Raise(flow[m]) EXCEPT !.polls = Saturate(@)])
  /\ UNCHANGED <<configVars, task, remote>>

\* messages.list and the scan for the latest assistant text, in a try; conv
\* is what the conversation holds by then
messages_list(m, ok, conv) ==
  /\ flow[m].pc = "list"
  /\ IF ok
     THEN /\ SetFlow(m, [flow[m] EXCEPT !.text = LatestText(conv), !.pc = "delete"])
          /\ SetRemote(thread_id(m), [remote[thread_id(m)] EXCEPT !.msgs = conv])
     ELSE /\ SetFlow(m, [flow[m] EXCEPT !.text = <<>>, !.clean = FALSE, !.pc = "delete"])
          /\ UNCHANGED remote
  /\ UNCHANGED <<configVars, task>>

\* slip: the flow returns without the delete call
threads_delete_skipped(m, ok) ==
  /\ flow[m].pc = "delete"
  /\ SetFlow(m, [flow[m] EXCEPT !.pc = "returned"])
  /\ UNCHANGED <<configVars, task, remote>>

\* threads.delete in a try, then return text or ""
threads_delete(m, ok) ==
  /\ flow[m].pc = "delete"
  /\ IF ok
     THEN /\ SetFlow(m, [flow[m] EXCEPT !.nDelete = @ + 1, !.pc = "returned"])
          /\ SetRemote(thread_id(m), [remote[thread_id(m)] EXCEPT !.conv = "deleted"])
     ELSE /\ SetFlow(m, [flow[m] EXCEPT !.nDelete = @ + 1, !.clean = FALSE,
                                        !.pc = "returned"])
          /\ UNCHANGED remote
  /\ UNCHANGED <<configVars, task>>

(* ---------------------------------------------------------------------- *)
(* The bot serving messages and admin commands                             *)
(* ---------------------------------------------------------------------- *)
Next ==
  \/ \E m \in DOMAIN task, msg \in Messages : on_message(m, msg)
  \/ \E m \in DOMAIN task, ok \in BOOLEAN : create_thread(m, ok)
  \/ \E m \in DOMAIN task, ok \in BOOLEAN : add_user(m, ok)
  \/ \E m \in DOMAIN task, ok \in BOOLEAN : typing_enter(m, ok)
  \/ \E m \in DOMAIN task : call_llm(m)
  \/ \E m \in DOMAIN task : run_sync_flow(m)
  \/ \E m \in DOMAIN task, ok \in BOOLEAN : threads_create(m, ok)
  \/ \E m \in DOMAIN task, ok \in BOOLEAN : messages_create(m, ok)
  \/ \E m \in DOMAIN task, ok \in BOOLEAN : runs_create(m, ok)
  \/ \E c \in DOMAIN remote, s \in RunStatuses : backend_advance(c, s)
  \/ \E m \in DOMAIN task, ok \in BOOLEAN : runs_retrieve(m, ok)
  \/ \E m \in DOMAIN task, ok \in BOOLEAN, conv \in Conversations : messages_list(m, ok, conv)
  \/ \E m \in DOMAIN task, ok \in BOOLEAN : threads_delete(m, ok)
  \/ \E m \in DOMAIN task : generate_reply_returns(m)
  \/ \E m \in DOMAIN task : generate_reply_raises(m)
  \/ \E m \in DOMAIN task, ok \in BOOLEAN : send_reply(m, ok)

Spec == Init /\ [][Next]_vars

(* ---------------------------------------------------------------------- *)
(* Properties of the message task and the run orchestration                *)
(* ---------------------------------------------------------------------- *)
\* the remote conversation the invocation of slot m created, if any
Conversation(m) ==
  IF flow[m].thread = NoId THEN NoRemote ELSE remote[flow[m].thread]

\* a text with nothing but whitespace in it (the empty text included)
Blank(s) == \A i \in 1..Len(s) : s[i] \in {" ", "\t", "\n", "\r", "\f"}

\* run_sync_flow is over, by return or by exception
FlowEnded(m) == flow[m].pc \in {"returned", "raised"}

\* C1: the run operation (_generate_reply calling complete) never raises to
\* its caller, whichever backend call fails.
C1_RunNeverRaises ==
  \A m \in DOMAIN task : flow[m].pc # "raised" /\ ~task[m].raised

\* C2: whenever a remote conversation was created and the invocation is over
\* (terminal status reached, or an exception in the polling or fetch path),
\* exactly one delete of that conversation was attempted.
C2_DeleteAlwaysAttempted ==
  \A m \in DOMAIN task :
    (Conversation(m).conv # "none" /\ FlowEnded(m)) => flow[m].nDelete = 1

\* C3: no exception escapes on_message, and a task that ends for a message
\* that passed the filters has attempted at least one reply.
C3_AlwaysAttemptsReply ==
  \A m \in DOMAIN task :
    /\ task[m].pc # "escaped"
    /\ task[m].pc = "done" => task[m].nSend >= 1

\* C4: a non-bot message with non-empty trimmed text is accepted exactly when
\* the allow-list is empty, or holds its context id, or (for a thread) holds
\* its parent id; otherwise it is ignored.
C4_AllowListFilter ==
  [][\A m \in Slots :
       (task[m].pc \in Resting /\ task'[m] # task[m]
          /\ ~task'[m].msg.bot /\ ~Blank(task'[m].msg.content))
       => LET ch == task'[m].msg.chan
              match == \/ ch.id \in allowed
                       \/ (ch.kind = "thread" /\ ch.parent \in allowed)
          IN (task'[m].pc # "ignored") <=> (allowed = {} \/ match)]_vars

\* C4 witness: a thread message accepted through its parent id alone
C4_Witness ==
  /\ task[1].pc = "done"
  /\ task[1].msg.chan = thGenie
  /\ allowed = {1}

\* C5: for a message from a bot, or one whose trimmed text is empty, nothing
\* is done: no thread, no grant, no typing indicator, no backend call, no reply.
C5_NoRoutingForBotOrBlank ==
  \A m \in DOMAIN task :
    (task[m].pc # "idle" /\ (task[m].msg.bot \/ Blank(task[m].msg.content)))
    => /\ task[m].pc = "ignored"
       /\ task[m].nCreate = 0 /\ task[m].nGrant = 0 /\ task[m].nTyping = 0
       /\ task[m].nSend = 0 /\ ~task[m].typing
       /\ flow[m].pc = "none" /\ Conversation(m) = NoRemote

\* C5 witness: a whitespace-only message in a permitted channel was dropped
C5_Witness ==
  /\ task[1].pc = "ignored"
  /\ ~task[1].msg.bot
  /\ task[1].msg.content = <<" ", "\n">>
  /\ task[1].msg.chan = chLobby
  /\ allowed = {2, 11}

\* the listed conversation is one assistant message with a single text part
\* on top of the user message
KnownReply(m) ==
  /\ Len(Conversation(m).msgs) = 2
  /\ Conversation(m).msgs[1].role = "assistant"
  /\ Len(Conversation(m).msgs[1].content) = 1
  /\ Conversation(m).msgs[1].content[1].type = "text"
  /\ Conversation(m).msgs[2].role = "user"

\* C6: when every backend call succeeded and the run went queued,
\* in_progress, completed, complete returns exactly the assistant text and
\* has issued exactly one delete, whatever the number of polls.
C6_HappyPath ==
  \A m \in DOMAIN task :
    (/\ flow[m].pc = "returned" /\ flow[m].clean
     /\ flow[m].status = "completed"
     /\ flow[m].seen \subseteq {"queued", "in_progress", "completed"}
     /\ KnownReply(m))
    => /\ flow[m].text = Conversation(m).msgs[1].content[1].value
       /\ flow[m].nDelete = 1
       /\ Conversation(m).conv = "deleted"

\* C6 witness: the happy path after the poll counter saturated
C6_Witness ==
  /\ flow[1].pc = "returned" /\ flow[1].clean
  /\ flow[1].status = "completed"
  /\ flow[1].seen = {"queued", "in_progress", "completed"}
  /\ KnownReply(1)
  /\ flow[1].polls = MaxPolls
  /\ flow[1].text = <<" ", "h", "i", "\n">>

\* no assistant message of the conversation has a text part
NoAssistantText(conv) ==
  \A i \in 1..Len(conv) :
    conv[i].role = "assistant" =>
      \A j \in 1..Len(conv[i].content) : conv[i].content[j].type # "text"

\* C8: a completed run whose conversation has no assistant text makes
\* complete return "", the caller then substitutes the fallback, and the
\* reply handed to the platform is never empty or whitespace-only.
C8_FallbackForEmpty ==
  \A m \in DOMAIN task :
    /\ (flow[m].pc = "returned" /\ flow[m].status = "completed"
          /\ Conversation(m).msgs # <<>> /\ NoAssistantText(Conversation(m).msgs))
       => flow[m].text = <<>>
    /\ (task[m].pc \in {"send", "done"} /\ ~task[m].raised /\ Blank(flow[m].text))
       => task[m].reply = sFallback
    /\ task[m].pc \in {"send", "done"}
       => (task[m].reply # <<>> /\ ~Blank(task[m].reply))

\* C8 witness: a completed run with an image-only assistant message was
\* answered with the fallback
C8_Witness ==
  /\ task[1].pc = "done"
  /\ flow[1].status = "completed"
  /\ remote[1].msgs = <<AssistantMsg(<<ImagePart>>), UserMsg>>
  /\ flow[1].text = <<>>
  /\ task[1].reply = sFallback

\* the message of slot m passed the three filters
Accepted(m) == task[m].pc \notin {"idle", "ignored"}

\* C11: for an accepted message of a text channel, a failed thread creation
\* leaves the channel as the target and the reply is sent as a reply to the
\* message; a failed grant leaves the created thread as the target; in both
\* cases the task goes on to the typing indicator and the generation (the
\* only exception that can end it afterwards is the typing request's own).
C11_RoutingErrorsDegrade ==
  \A m \in DOMAIN task :
    LET t == task[m]
        creationFailed == t.nCreate = 1 /\ t.nGrant = 0
                            /\ t.pc \notin {"create_thread", "add_user"}
        grantFailed == t.nGrant = 1 /\ ~t.granted
    IN (Accepted(m) /\ t.msg.chan.kind = "text") =>
         /\ creationFailed =>
              /\ t.target = "origin"
              /\ t.pc = "escaped" => t.nTyping = 1
              /\ t.pc = "done" => t.via = "reply"
         /\ grantFailed =>
              /\ t.target = "created"
              /\ t.pc = "escaped" => t.nTyping = 1
              /\ t.pc = "done" => t.via = "send"

\* C11 witness: the creation failed and the reply was delivered as a reply
\* in the channel
C11_Witness ==
  /\ task[1].msg.chan = chGenie
  /\ task[1].pc = "done"
  /\ task[1].nCreate = 1 /\ task[1].nGrant = 0
  /\ task[1].target = "origin"
  /\ task[1].via = "reply" /\ task[1].delivered

\* C12: per accepted message at most one creation call and at most one grant
\* call are made, the grant only after a creation that succeeded; for a
\* message that is already in a thread (or in any context that is not a text
\* channel) neither call is made and the target is the context it came from.
C12_AtMostOneCreation ==
  \A m \in DOMAIN task :
    LET t == task[m] IN
    /\ t.nCreate <= 1 /\ t.nGrant <= 1
    /\ ~Accepted(m) => (t.nCreate = 0 /\ t.nGrant = 0)
    /\ (t.pc = "add_user" \/ t.nGrant = 1) => t.nCreate = 1
    /\ t.target = "created" <=> t.nGrant = 1
    /\ (Accepted(m) /\ t.msg.chan.kind # "text") =>
         /\ t.nCreate = 0 /\ t.nGrant = 0
         /\ t.target = "origin"
         /\ t.pc = "done" => t.via = IF t.msg.chan.kind = "thread" THEN "send" ELSE "reply"

\* C12 witness: a grant that failed was not made again before the reply
C12_Witness ==
  /\ task[1].msg.chan.kind = "text"
  /\ task[1].pc = "done"
  /\ task[1].nCreate = 1 /\ task[1].nGrant = 1 /\ ~task[1].granted

\* C18: the typing indicator is requested once, on the resolved target (after
\* the routing), is held exactly from then until _generate_reply ends by
\* return or by exception, and is not held when the reply is sent nor after
\* on_message is over.
C18_TypingScoped ==
  \A m \in DOMAIN task :
    LET t == task[m] IN
    /\ t.typing <=> t.pc \in {"sleep", "await_llm"}
    /\ (OnWorker(m) \/ flow[m].pc = "submitted") => t.typing
    /\ t.nTyping <= 1
    /\ t.nTyping = 1 <=> (Accepted(m) /\ t.pc \notin {"create_thread", "add_user", "typing"}
                            /\ ~(t.pc = "escaped" /\ t.name = <<>> /\ t.msg.chan.kind = "text"))
    /\ (t.nSend >= 1 \/ t.pc \in Resting \/ t.pc = "send") => ~t.typing

\* C18 witness: the generation raised, the indicator is released and the
\* apology is about to be sent
C18_Witness ==
  /\ task[1].pc = "send"
  /\ task[1].raised
  /\ task[1].nTyping = 1
  /\ ~task[1].typing

\* the first text part of the newest assistant message among msgs (newest
\* first), "" when there is no assistant message or it has no text part
RECURSIVE NewestAssistantText(_)
NewestAssistantText(msgs) ==
  IF msgs = <<>> THEN <<>>
  ELSE IF Head(msgs).role = "assistant" THEN FirstTextPart(Head(msgs).content)
  ELSE NewestAssistantText(Tail(msgs))

\* C19: after a completed run whose messages were listed, the text returned
\* is the first text part of the most recent assistant message listed and of
\* no other: "" when that message has no text part or an empty one, even if
\* an older assistant message has text.
C19_NewestAssistantOnly ==
  \A m \in DOMAIN task :
    (flow[m].pc \in {"delete", "returned"} /\ flow[m].status = "completed"
       /\ Conversation(m).msgs # <<>>)
    => flow[m].text = NewestAssistantText(Truncate(Conversation(m).msgs, ListLimit))

\* C20: when the run ended failed or expired, complete() returns "" whatever
\* messages the conversation holds.
C20_NoTextFromUnfinishedRun ==
  \A m \in DOMAIN task :
    (flow[m].pc \in {"delete", "returned"} /\ flow[m].status \in {"failed", "expired"})
    => flow[m].text = <<>>

(* ---------------------------------------------------------------------- *)
(* index.py: process start, and the configuration over restarts            *)
(* ---------------------------------------------------------------------- *)
\* assistants the backend may be asked to create over all the starts
MaxAssistants == 2

\* LLMClient._ensure_assistant: data.get raises on a document that is not a
\* dict; reuse the persisted assistant when the update succeeds, else create
\* one and persist its id (a failed create or a failed write raises out of
\* the constructor); left is the file a failed write leaves
EnsureAssistant(f, existing, updOk, createOk, writeOk, left) ==
  LET data == load_settings(f)
      assistant_id == data.assistant_id
      truthy == \/ (assistant_id.t = "str" /\ assistant_id.s # <<>>)
                \/ (assistant_id.t = "int" /\ assistant_id.n # 0)
      updated == truthy /\ assistant_id.t = "str" /\ assistant_id.s \in existing /\ updOk
      fresh == AsstId(Cardinality(existing) + 1)
  IN IF ~IsDict(data)
     THEN [ok |-> FALSE, id |-> <<>>, file |-> f, assistants |-> existing,
           writeFailed |-> FALSE, error |-> "read"]
     ELSE IF updated
     THEN [ok |-> TRUE, id |-> assistant_id.s, file |-> f, assistants |-> existing,
           writeFailed |-> FALSE, error |-> "none"]
     ELSE IF ~createOk
     THEN [ok |-> FALSE, id |-> <<>>, file |-> f, assistants |-> existing,
           writeFailed |-> FALSE, error |-> "create"]
     ELSE IF writeOk
     THEN [ok |-> TRUE, id |-> fresh,
           file |-> [data EXCEPT !.assistant_id = JStr(fresh)],
           assistants |-> existing \cup {fresh}, writeFailed |-> FALSE,
           error |-> "none"]
     ELSE [ok |-> FALSE, id |-> <<>>, file |-> left,
           assistants |-> existing \cup {fresh}, writeFailed |-> TRUE,
           error |-> "write"]

\* main(): the process is (re)started: LLMClient(), then DiscordBot(), whose
\* constructor derives the allow-list; tasks of an earlier run are gone
Start(updOk, createOk, writeOk, left) ==
  LET r == EnsureAssistant(file, assistants, updOk, createOk, writeOk, left) IN
  /\ left \in AfterFailedWrite(file)
  /\ (r.assistants = assistants \/ Cardinality(assistants) < MaxAssistants)
  /\ up' = r.ok
  /\ file' = r.file
  /\ assistants' = r.assistants
  /\ assistantId' = r.id
  /\ allowed' = IF r.ok THEN StartupAllowList(r.file, staticIds) ELSE {}
  /\ setLog' = IF r.writeFailed THEN NoSets
                ELSE [setLog EXCEPT !.restarted = r.ok \/ @]
  /\ cmdReply' = "none"
  /\ startError' = r.error
  /\ task' = [m \in DOMAIN task |-> IdleTask]
  /\ flow' = [m \in DOMAIN flow |-> IdleFlow]
  /\ remote' = [m \in DOMAIN remote |-> NoRemote]
  /\ UNCHANGED <<staticIds, template, poolSize>>

\* the settings documents a first start may find
StoredFiles ==
  {AbsentDoc, CorruptDoc, NonObjectDoc, Doc(JNone, JNone), Doc(JInt(1), JStr(AsstId(1))),
   Doc(JStr(<<"2">>), JStr(AsstId(1))), Doc(JStr(<<"x">>), JNone)}

StaticLists == {{}, {1}, {2, 11}}

\* before the first start of the process
ConfigInit ==
  /\ up = FALSE
  /\ file \in StoredFiles
  /\ staticIds \in StaticLists
  /\ template = DefaultTemplate
  /\ allowed = {}
  /\ assistantId = <<>>
  /\ assistants = IF file.assistant_id.t = "str" THEN {file.assistant_id.s} ELSE {}
  /\ setLog = NoSets
  /\ cmdReply = "none"
  /\ startError = "none"
  /\ poolSize = MaxWorkers
  /\ task = [m \in Slots |-> IdleTask]
  /\ flow = [m \in Slots |-> IdleFlow]
  /\ remote = [m \in Slots |-> NoRemote]

ConfigNext ==
  \/ AdminCommand
  \/ \E updOk \in BOOLEAN, createOk \in BOOLEAN, writeOk \in BOOLEAN,
        left \in {file, CorruptDoc} : Start(updOk, createOk, writeOk, left)

\* starts, restarts and admin commands
ConfigSpec == ConfigInit /\ [][ConfigNext]_vars

\* C9: setting the channel replaces the allow-list: once a set was persisted
\* (and no settings write failed since), the allow-list of the running
\* process is exactly that channel, also after restarts and whatever the
\* env list is.
C9_SetReplaces ==
  (up /\ setLog.last # NoId) => allowed = {setLog.last}

\* C9 witness: set(1), then set(2), then a restart under an env list naming
\* channel 1: only 2 is a member
C9_Witness ==
  /\ up
  /\ setLog = [last |-> 2, prev |-> 1, restarted |-> TRUE]
  /\ staticIds = {1}
  /\ allowed = {2}

\* C13: an admin command by a caller without the permission changes nothing:
\* the allow-list in memory and the settings document are the same before and
\* after, nothing is recorded as set, and what the caller is sent is the
\* rejection.
C13_NonAdminChangesNothing ==
  [][(cmdReply' \in {"admin_only", "admin_only_lost"})
       => /\ allowed' = allowed
          /\ file' = file
          /\ get_genie_channel_id(file') = get_genie_channel_id(file)
          /\ setLog' = setLog]_vars

\* C13 witness: channel 2 was set by an administrator, then a caller without
\* the permission named a channel and was shown the rejection
C13_Witness ==
  /\ up
  /\ cmdReply = "admin_only"
  /\ setLog.last = 2
  /\ allowed = {2}
  /\ get_genie_channel_id(file) = 2

\* C14: no start of the process fails on reading the settings document,
\* whatever the file holds (nothing, garbage, JSON that is not an object, or
\* keys with values of the wrong type).
C14_ReadNeverFailsStart == startError # "read"

\* C15: at most one assistant exists per deployment: every assistant that
\* exists at the backend is the one the settings document names (none is left
\* orphaned), and the id the running process uses is the persisted one.
C15_OneAssistantPersisted ==
  /\ \A a \in assistants : load_settings(file).assistant_id = JStr(a)
  /\ up => load_settings(file).assistant_id = JStr(assistantId)

\* C21: the allow-list in memory and the persisted channel do not diverge
\* over an admin command: after a command by an administrator (persisted or
\* not) the allow-list is the one-element set of the channel the settings
\* document holds, a rejected command keeps that relation if it held, and
\* every command ends with a response to the caller (the confirmation or the
\* rejection), not with an exception.
C21_AllowListMatchesPersisted ==
  [][(cmdReply' # "none") =>
       /\ cmdReply' # "raised"
       /\ cmdReply' \in {"confirmed", "confirmed_lost", "raised"}
            => allowed' = {get_genie_channel_id(file')}
       /\ (cmdReply' \in {"admin_only", "admin_only_lost"}
             /\ allowed = {get_genie_channel_id(file)})
            => allowed' = {get_genie_channel_id(file')}]_vars

(* ---------------------------------------------------------------------- *)
(* The polling loop under a scheduler that runs the worker thread and a    *)
(* backend that ends every run                                             *)
(* ---------------------------------------------------------------------- *)
LiveInit ==
  /\ Init
  /\ file = Doc(JNone, JStr(AsstId(1)))
  /\ staticIds = {}
  /\ template = DefaultTemplate

\* the backend ends the run
backend_finishes(m) == \E s \in Terminal : backend_advance(m, s)

Fairness ==
  \A m \in Slots :
    /\ WF_vars(\E ok \in BOOLEAN : runs_retrieve(m, ok))
    /\ WF_vars(\E ok \in BOOLEAN, conv \in Conversations : messages_list(m, ok, conv))
    /\ WF_vars(\E ok \in BOOLEAN : threads_delete(m, ok))
    /\ WF_vars(backend_finishes(m))

LiveSpec == LiveInit /\ [][Next]_vars /\ Fairness

\* C7: the loop has no bound: a successful poll that observes queued,
\* in_progress or requires_action is followed by another poll, after any
\* number of polls, and one that observes any other status leaves the loop;
\* once out of the loop the flow returns, and with a backend that ends the
\* run every flow that polls ends.
C7_PollsUntilTerminal ==
  /\ [][\A m \in Slots :
          (flow[m].pc = "poll" /\ flow'[m] # flow[m] /\ flow'[m].clean)
          => /\ flow'[m].status \in {"queued", "in_progress", "requires_action"}
                => flow'[m].pc = "poll"
             /\ flow'[m].status \notin {"queued", "in_progress", "requires_action"}
                => flow'[m].pc = "list"]_vars
  /\ \A m \in Slots : (flow[m].pc = "list") ~> (flow[m].pc = "returned")
  /\ \A m \in Slots : (flow[m].pc = "poll") ~> FlowEnded(m)

\* C7 witness: still polling a run in requires_action after the poll
\* counter saturated
C7_Witness ==
  /\ flow[1].pc = "poll"
  /\ flow[1].polls = MaxPolls
  /\ flow[1].status = "requires_action"
  /\ flow[1].clean

(* ---------------------------------------------------------------------- *)
(* _format_thread_name over templates and author names                     *)
(* ---------------------------------------------------------------------- *)
Repeat(c, n) == [i \in 1..n |-> c]

\* author names: empty, blank, plain, ragged, with braces, with a form feed,
\* longer than the limit, and with a space where the name is cut
AuthorNames ==
  { <<>>, <<" ">>, <<"\n", "\t">>, sBob,
    <<" ", "b", " ", "\t", "o", "\n">>,
    <<"{", "x", "}">>,
    <<"a", "\f", "b">>,
    Repeat("a", LongLen),
    Repeat("a", 93) \o <<" ">> \o Repeat("b", 10) }

\* templates as config.py hands them over (trimmed, non-empty)
FormatTemplates ==
  { DefaultTemplate,
    <<"{">> \o sAuthor \o <<"}">>,
    <<"{">> \o sAuthor \o <<"}", "{">> \o sAuthor \o <<"}">>,
    <<"{">> \o sAuthor \o <<"}", "\n", "{">> \o sId \o <<"}">>,
    <<"{">> \o sChannel \o <<"}", "-", "{">> \o sUserId \o <<"}">>,
    <<"{", "{">> \o sAuthor \o <<"}", "}">>,
    sGenieDash \o <<"{", "n", "a", "m", "e", "}">>,
    sGenieDash \o <<"{", "}">>,
    sGenieDash \o <<"{", "0", "}">>,
    sGenieDash \o <<"{">>,
    sGenieDash \o <<"}", "x">>,
    sGenieDash \o <<"{">> \o sId }

FormatMessages ==
  {Message(FALSE, sHi, ch, a) : ch \in TextChannels, a \in AuthorNames}

FormatInit ==
  /\ up = TRUE
  /\ file = Doc(JNone, JStr(AsstId(1)))
  /\ staticIds = {}
  /\ template \in FormatTemplates
  /\ allowed = StartupAllowList(file, staticIds)
  /\ assistantId = AsstId(1)
  /\ assistants = {AsstId(1)}
  /\ setLog = NoSets
  /\ cmdReply = "none"
  /\ startError = "none"
  /\ poolSize = MaxWorkers
  /\ task = [m \in Slots |-> IdleTask]
  /\ flow = [m \in Slots |-> IdleFlow]
  /\ remote = [m \in Slots |-> NoRemote]

FormatNext == \E m \in DOMAIN task, msg \in FormatMessages : on_message(m, msg)

\* on_message names the thread for messages of text channels
FormatSpec == FormatInit /\ [][FormatNext]_vars

\* a name the platform takes: 1 to 100 characters, none of \n, \r, \t
UsableName(name) ==
  /\ Len(name) >= 1
  /\ Len(name) <= 100
  /\ \A i \in 1..Len(name) : name[i] \notin {"\n", "\r", "\t"}

\* C10: for every template and every author name _format_thread_name returns
\* a usable name (non-empty, at most 100 characters, no newline, carriage
\* return or tab), the default "genie-<id>" when the sanitised result is empty.
C10_ThreadNameUsable ==
  \A m \in DOMAIN task :
    task[m].pc # "idle"
    => /\ task[m].pc = "create_thread"
       /\ UsableName(task[m].name)
       /\ (template = <<"{">> \o sAuthor \o <<"}">> /\ Blank(task[m].msg.author)
             /\ task[m].msg.author # <<>>)
          => task[m].name = sGenieDash \o <<"7">>

\* whenever format() accepts the template, the name is usable
FormatNamesUsable ==
  \A m \in DOMAIN task :
    task[m].pc = "create_thread"
    => /\ UsableName(task[m].name)
       /\ (template = <<"{">> \o sAuthor \o <<"}">> /\ Blank(task[m].msg.author)
             /\ task[m].msg.author # <<>>)
          => task[m].name = sGenieDash \o <<"7">>

(* ---------------------------------------------------------------------- *)
(* Two messages in flight at once                                          *)
(* ---------------------------------------------------------------------- *)
ConcSlots == {1, 2}

sAmy == <<"a", "m", "y">>

\* two messages that differ in author, text and thread
ConcMessages ==
  {Message(FALSE, sHi, thGenie, sBob), Message(FALSE, sOld, thLobby, sAmy)}

\* what a conversation may hold when it is listed: two different answers
ConcConversations ==
  {<<AssistantMsg(<<TextPart(sHello)>>), UserMsg>>,
   <<AssistantMsg(<<ImagePart>>), AssistantMsg(<<TextPart(sOld)>>), UserMsg>>}

\* a running process with two message slots and an executor of one worker, or
\* of as many as there are slots
ConcInit ==
  /\ up = TRUE
  /\ file = Doc(JNone, JStr(AsstId(1)))
  /\ staticIds = {}
  /\ template = DefaultTemplate
  /\ allowed = StartupAllowList(file, staticIds)
  /\ assistantId = AsstId(1)
  /\ assistants = {AsstId(1)}
  /\ setLog = NoSets
  /\ cmdReply = "none"
  /\ startError = "none"
  /\ poolSize \in {1, MaxWorkers}
  /\ task = [m \in ConcSlots |-> IdleTask]
  /\ flow = [m \in ConcSlots |-> IdleFlow]
  /\ remote = [c \in ConcSlots |-> NoRemote]

\* the run of a conversation is picked up and completes
ConcStatuses == {"in_progress", "completed"}

\* messages arrive in threads; of the calls, a poll may fail
ConcNext ==
  \/ \E m \in DOMAIN task, msg \in ConcMessages : on_message(m, msg)
  \/ \E m \in DOMAIN task : typing_enter(m, TRUE)
  \/ \E m \in DOMAIN task : call_llm(m)
  \/ \E m \in DOMAIN task : run_sync_flow(m)
  \/ \E m \in DOMAIN task : threads_create(m, TRUE)
  \/ \E m \in DOMAIN task : messages_create(m, TRUE)
  \/ \E m \in DOMAIN task : runs_create(m, TRUE)
  \/ \E c \in DOMAIN remote, s \in ConcStatuses : backend_advance(c, s)
  \/ \E m \in DOMAIN task, ok \in BOOLEAN : runs_retrieve(m, ok)
  \/ \E m \in DOMAIN task, conv \in ConcConversations : messages_list(m, TRUE, conv)
  \/ \E m \in DOMAIN task : threads_delete(m, TRUE)
  \/ \E m \in DOMAIN task : generate_reply_returns(m)
  \/ \E m \in DOMAIN task : generate_reply_raises(m)
  \/ \E m \in DOMAIN task : send_reply(m, TRUE)

ConcSpec == ConcInit /\ [][ConcNext]_vars

\* C16: invocations in flight together are isolated: every conversation that
\* exists was created by exactly one invocation; it holds that invocation's
\* user message and no other; the status the invocation saw last, the text it
\* returns and the delete are those of its own conversation; the reply of a
\* message is made of the text its own invocation returned and goes to the
\* thread the message came from.
C16_InvocationsIsolated ==
  /\ \A c \in DOMAIN remote :
       remote[c].conv # "none" =>
         Cardinality({m \in DOMAIN flow : flow[m].thread = c}) = 1
  /\ \A m \in DOMAIN task :
       LET f == flow[m]
           t == task[m]
           own == Conversation(m)
       IN /\ f.thread = NoId => f.pc \in {"none", "submitted", "threads_create", "raised"}
          /\ f.thread # NoId =>
               /\ own.conv \in {"live", "deleted"}
               /\ own.conv = "deleted" => (f.pc = "returned" /\ f.nDelete = 1)
               /\ f.nDelete = 0 => own.conv = "live"
               /\ own.userMsgs = IF f.pc = "messages_create"
                                    \/ (f.pc = "raised" /\ f.status = "none"
                                          /\ own.userMsgs = <<>>)
                                 THEN <<>> ELSE <<Prompt(t.msg)>>
               /\ f.status \in Terminal => own.status = f.status
               /\ f.pc \in {"delete", "returned"} =>
                    f.text = LatestText(own.msgs)
          /\ (t.pc \in {"send", "done"} /\ ~t.raised) => t.reply = ReplyText(f.text)
          /\ t.pc = "done" => (t.target = "origin" /\ t.via = "send")

\* C16 witness: both invocations are in flight, each on the conversation the
\* other slot's number names, the second already holding its own answer
C16_Witness ==
  /\ task[1].msg # task[2].msg
  /\ flow[1].thread = 2 /\ flow[2].thread = 1
  /\ flow[1].pc = "poll"
  /\ flow[2].pc = "delete"
  /\ flow[2].text = sHello
  /\ remote[2].userMsgs = <<Prompt(task[1].msg)>>
  /\ remote[1].userMsgs = <<Prompt(task[2].msg)>>

\* C17: while an invocation polls a run that has not ended, nothing else is
\* held up: an admin command can be processed, and for every other message
\* the next step is possible: it is routed, the typing indicator requested,
\* its job handed over and started, its reply sent.
C17_PollingNeverStalls ==
  \A m \in DOMAIN task :
    (flow[m].pc = "poll" /\ Conversation(m).status \in Active) =>
      /\ ENABLED AdminCommand
      /\ \A n \in DOMAIN task \ {m} :
           /\ task[n].pc \in Resting => \A msg \in ConcMessages : ENABLED on_message(n, msg)
           /\ task[n].pc = "typing" => ENABLED typing_enter(n, TRUE)
           /\ task[n].pc = "sleep" => ENABLED call_llm(n)
           /\ flow[n].pc = "submitted" => ENABLED run_sync_flow(n)
           /\ task[n].pc = "send" => ENABLED send_reply(n, TRUE)

\* the part of C17 about the event loop alone: everything but the start of a
\* submitted job is possible while others poll
EventLoopNeverStalls ==
  \A m \in DOMAIN task :
    (flow[m].pc = "poll" /\ Conversation(m).status \in Active) =>
      /\ ENABLED AdminCommand
      /\ \A n \in DOMAIN task \ {m} :
           /\ task[n].pc \in Resting => \A msg \in ConcMessages : ENABLED on_message(n, msg)
           /\ task[n].pc = "typing" => ENABLED typing_enter(n, TRUE)
           /\ task[n].pc = "sleep" => ENABLED call_llm(n)
           /\ task[n].pc = "send" => ENABLED send_reply(n, TRUE)
           /\ (flow[n].pc = "submitted"
                 /\ Cardinality({k \in DOMAIN flow : OnWorker(k)}) < poolSize)
              => ENABLED run_sync_flow(n)

====
